---- MODULE Spec2Model ----
(***************************************************************************)
(* Model of the LIN bus master library (Sensirion/lin-bus-rs).             *)
(*                                                                         *)
(* Pure codecs (PID, checksum, Frame, decode) are operators computed the   *)
(* way the Rust code computes them: bytes are integers 0..255, u8/u16      *)
(* arithmetic is written out, the 64-bit word used by Frame::decode is a   *)
(* vector of 64 bits (TLC integers are 32 bit wide).                       *)
(* The master transaction logic (write_frame / read_frame / send_wakeup    *)
(* over an abstract driver) is a state machine with one step per driver    *)
(* call; the driver's outcome and the bytes it delivers are inputs.        *)
(***************************************************************************)
EXTENDS Integers, Sequences, FiniteSets, TLC

VARIABLES
    pc,        \* position: "idle", "write_frame_write", "read_frame_read" (master); "ready", "done" (pure calls)
    tx,        \* the operation being (or last) executed, with its arguments
    frame,     \* the Frame local to the running transaction
    calls,     \* driver calls issued by the running (or last) transaction, in order, with outcome
    result,    \* value returned by the last operation
    compared,  \* whether read_frame reached its checksum comparison
    prev       \* kind of result of the transaction that ran before this one

vars == <<pc, tx, frame, calls, result, compared, prev>>

(***************************************************************************)
(* Bounds of the model                                                     *)
(***************************************************************************)
\* number of sample byte values payloads are built from
NumBytes == 4
\* longest payload for which every combination of sample bytes is enumerated
MaxShortLen == 2
\* longest payload of the "ramp" family (one more than a frame can hold)
MaxRampLen == 9
\* longest data_length of a bus transaction short of a full frame
MaxDataLen == 2

(***************************************************************************)
(* Result values: Rust Result / panic                                      *)
(***************************************************************************)
Ok(v) == [tag |-> "ok", val |-> v]
Err(e) == [tag |-> "err", err |-> e]
Panicked(msg) == [tag |-> "panic", msg |-> msg]
NoResult == [tag |-> "none"]
Unit == <<>>

(***************************************************************************)
(* u8 helpers                                                              *)
(***************************************************************************)
Byte == 0..255
Bit(x, k) == (x \div (2^k)) % 2

RECURSIVE SumBits(_, _)
SumBits(f, k) == IF k < 0 THEN 0 ELSE f[k] * (2^k) + SumBits(f, k - 1)

\* x & m on u8
BitAnd(x, m) == SumBits([k \in 0..7 |-> Bit(x, k) * Bit(m, k)], 7)
\* x | m on u8
BitOr(x, m) == SumBits([k \in 0..7 |-> IF Bit(x, k) + Bit(m, k) > 0 THEN 1 ELSE 0], 7)
\* x << n on u8 (bits shifted out are lost)
Shl8(x, n) == (x * (2^n)) % 256

RECURSIVE count_ones(_)
count_ones(x) == IF x = 0 THEN 0 ELSE (x % 2) + count_ones(x \div 2)

(***************************************************************************)
(* PID                                                                     *)
(***************************************************************************)
PID(b) == [byte |-> b]

\* P1 without its negation
from_id_const_p1(id) ==
    LET p0 == BitAnd(count_ones(BitAnd(id, 23)) % 256, 1)
        p1 == BitAnd(count_ones(BitAnd(id, 58)) % 256, 1)
    IN  PID(BitOr(BitOr(id, Shl8(p0, 6)), Shl8(p1, 7)))

from_id_const(id) ==
    LET p0 == BitAnd(count_ones(BitAnd(id, 23)) % 256, 1)
        p1 == BitAnd((count_ones(BitAnd(id, 58)) % 256) + 1, 1)
    IN  PID(BitOr(BitOr(id, Shl8(p0, 6)), Shl8(p1, 7)))

from_id(id) ==
    IF id < 64 THEN Ok(from_id_const(id)) ELSE Panicked("ID must be less than 64")

get(pid) == pid.byte

get_id(pid) == BitAnd(pid.byte, 63)

uses_classic_checksum(pid) == get_id(pid) >= 60

(***************************************************************************)
(* Checksums                                                               *)
(***************************************************************************)
\* plain addition modulo 256, the carry dropped
fold_step_mod256(sum, v) == (sum + v) % 256

\* the carry folded back only above 256
fold_step_gt(sum, v) ==
    LET s == sum + v
    IN  IF s > 256 THEN s - 255 ELSE s

\* the closure of the fold: one byte added to the u16 accumulator
fold_step(sum, v) ==
    LET s == sum + v
    IN  IF s >= 256 THEN s - 255 ELSE s

\* data.iter().fold(init, f): left fold over the bytes in order
RECURSIVE fold(_, _)
fold(data, acc) ==
    IF data = <<>> THEN acc ELSE fold(Tail(data), fold_step(acc, Head(data)))

\* !(sum as u8)
checksum(pid, data) == 255 - (fold(data, pid.byte) % 256)

classic_checksum(data) == checksum(PID(0), data)

(***************************************************************************)
(* Frame                                                                   *)
(***************************************************************************)
\* [0u8; 9]
ZeroBuffer == [i \in 1..9 |-> 0]

\* buffer[0..n].clone_from_slice(data): the first Len(data) bytes replaced
CopyInto(buffer, data) ==
    [i \in 1..9 |-> IF i <= Len(data) THEN data[i] ELSE buffer[i]]

\* the enhanced checksum for every identifier
select_checksum_enhanced(pid, data) == checksum(pid, data)

\* the checksum selection rule applied to a byte slice
select_checksum(pid, data) ==
    IF uses_classic_checksum(pid) THEN classic_checksum(data) ELSE checksum(pid, data)

from_data(pid, data) ==
    IF Len(data) > 8
    THEN Panicked("Maximum data is 8 bytes")
    ELSE LET copied == CopyInto(ZeroBuffer, data)
             buffer == [copied EXCEPT
                           ![Len(data) + 1] =
                               select_checksum(pid, SubSeq(copied, 1, Len(data)))]
         IN  Ok([pid |-> pid, buffer |-> buffer, data_length |-> Len(data)])

get_data(f) == SubSeq(f.buffer, 1, f.data_length)

get_checksum(f) == f.buffer[f.data_length + 1]

get_pid(f) == f.pid

\* the payload without the checksum byte
get_data_with_checksum_short(f) == SubSeq(f.buffer, 1, f.data_length)

get_data_with_checksum(f) == SubSeq(f.buffer, 1, f.data_length + 1)

(***************************************************************************)
(* Frame::decode.  Words are bit vectors indexed from bit 0 (least         *)
(* significant).                                                           *)
(***************************************************************************)
\* the 8 bytes read most significant first
read_u64_be(bytes) == [k \in 0..63 |-> Bit(bytes[8 - (k \div 8)], k % 8)]

\* LittleEndian::read_u64 of 8 bytes
read_u64(bytes) == [k \in 0..63 |-> Bit(bytes[(k \div 8) + 1], k % 8)]

\* v << n and v >> n on an unsigned integer of the given width
ShlV(v, n, width) == [k \in 0..(width - 1) |-> IF k >= n THEN v[k - n] ELSE 0]
ShrV(v, n, width) == [k \in 0..(width - 1) |-> IF k + n < width THEN v[k + n] ELSE 0]
\* v as T, T no wider than v
CastV(v, width) == [k \in 0..(width - 1) |-> v[k]]

\* <u64 as BitRange<T>>::bit_range(msb, lsb) of the bitfield crate, T of w bits
bit_range(num, msb, lsb, w) ==
    LET bit_len == 64
        shifted == ShrV(ShlV(num, bit_len - msb - 1, 64), bit_len - msb - 1 + lsb, 64)
        res == CastV(shifted, w)
        up == w - (msb - lsb + 1)
    IN  ShrV(ShlV(res, up, w), up, w)

\* the first assertion of decode as master.rs writes it
master_enough_data(f, offset, length) == (offset + length) < f.data_length * 8
\* the first assertion of decode as frame.rs writes it
frame_enough_data(f, offset, length) == (offset + length) <= f.data_length * 8

\* the body both versions of decode share, after the first assertion
decode_body(f, offset, length, w) ==
    IF ~(length <= w)
    THEN Panicked("Output type not big enough")
    ELSE LET num == read_u64(SubSeq(f.buffer, 1, 8))
         IN  Ok(bit_range(num, offset + length - 1, offset, w))

\* Frame::decode of master.rs
master_decode(f, offset, length, w) ==
    IF ~master_enough_data(f, offset, length)
    THEN Panicked("Not enough data available")
    ELSE decode_body(f, offset, length, w)

\* Frame::decode of frame.rs
frame_decode(f, offset, length, w) ==
    IF ~frame_enough_data(f, offset, length)
    THEN Panicked("Not enough data available")
    ELSE decode_body(f, offset, length, w)

(***************************************************************************)
(* Inputs                                                                  *)
(***************************************************************************)
ByteSample == <<0, 255, 1, 128, 85, 254, 2, 170>>
ByteVals == {ByteSample[k] : k \in 1..NumBytes}

ShortPayloads == UNION {[1..n -> ByteVals] : n \in 0..MaxShortLen}

Ramp(b, s, n) == [i \in 1..n |-> (b + (i - 1) * s) % 256]
RampSteps == {0, 1, 51}
RampPayloads == {Ramp(b, s, n) : b \in ByteVals, s \in RampSteps, n \in 0..MaxRampLen}

\* payloads the repository's tests use
TestPayloads ==
    { <<1>>, <<85, 147, 229>>, <<64, 255>>, <<1, 2, 3, 4, 5, 6, 7, 8>>,
      <<254, 251, 239, 255>>, <<3, 12, 240, 182>>, <<3, 12, 0, 183>>,
      <<2, 12, 240, 182>>, <<2, 8, 0, 183>>, <<85, 221>> }

Payloads == ShortPayloads \cup RampPayloads \cup TestPayloads

\* identifiers on both sides of the classic/enhanced boundary
SampleIds == {0, 1, 29, 59, 60, 61, 63}
\* PID bytes: from identifiers, and the raw ones the tests write
PidBytes == {from_id_const(i).byte : i \in SampleIds} \cup {0, 74, 191, 221, 255}

(***************************************************************************)
(* The driver: every call is fallible; its outcome and the bytes a read    *)
(* delivers are inputs of the model.                                       *)
(***************************************************************************)
\* Driver::Error::from(e) for an error e of the crate's enum Error
DriverErrorFrom(e) == [lin |-> e]
\* an error value only the driver knows
DriverOwnError == [driver |-> "Other"]

DriverErrors ==
    {DriverErrorFrom(e) : e \in {"Timeout", "PhysicalBus", "Checksum"}} \cup {DriverOwnError}

DriverResults == {Ok(Unit)} \cup {Err(e) : e \in DriverErrors}

\* errors ignored instead of returned
Propagates_never(r) == FALSE

\* the `?` operator: an Err returns from the function at once
Propagates(r) == r.tag = "err"

\* one identifier with the enhanced and one with the classic checksum
TxIds == {29, 60}
TxPids == {from_id_const(i) : i \in TxIds}
\* payloads on the bus: the short ones, and full frames of 8 bytes
TxPayloads ==
    {p \in ShortPayloads \cup TestPayloads : Len(p) <= MaxDataLen}
        \cup {Ramp(b, 1, 8) : b \in ByteVals}
TxFrames == {from_data(pid, p).val : pid \in TxPids, p \in TxPayloads}
\* data_length arguments of read_frame, 9 being out of contract
ReadLens == {Len(p) : p \in TxPayloads} \cup {9}

\* trailing bytes a slave may answer with: the right checksum and wrong ones
Trailing(pid, p) ==
    LET cs == select_checksum(pid, p)
    IN  {cs, (cs + 1) % 256, 255 - cs, 0}

\* what the driver may put into a buffer of len bytes after the header of pid
DriverReads(pid, len) ==
    IF len = 0 THEN {<<>>}
    ELSE UNION {{Append(p, t) : t \in Trailing(pid, p)} :
                   p \in {q \in TxPayloads : Len(q) = len - 1}}

NoFrame == [none |-> TRUE]

(***************************************************************************)
(* Master transaction logic                                                *)
(***************************************************************************)
\* a Frame whose buffer is not cleared
new_frame_stale(pid, data_length) ==
    [pid |-> pid, buffer |-> [i \in 1..9 |-> 255], data_length |-> data_length]

\* the Frame read_frame constructs before the read
new_frame(pid, data_length) ==
    [pid |-> pid, buffer |-> ZeroBuffer, data_length |-> data_length]

\* the slice without room for the checksum byte
read_slice_len_short(data_length) == data_length

\* length of the slice &mut frame.buffer[0..=data_length] handed to read
read_slice_len(data_length) == data_length + 1

\* the frame returned without the comparison
verify_unchecked(f) == Ok(f)

\* read_frame after a successful read: recompute and compare
verify(f) ==
    LET cs == IF uses_classic_checksum(f.pid)
              THEN classic_checksum(SubSeq(f.buffer, 1, f.data_length))
              ELSE checksum(f.pid, SubSeq(f.buffer, 1, f.data_length))
    IN  IF cs # f.buffer[f.data_length + 1]
        THEN Err(DriverErrorFrom("Checksum"))
        ELSE Ok(f)

Init ==
    /\ pc = "idle"
    /\ tx = [op |-> "none"]
    /\ frame = NoFrame
    /\ calls = <<>>
    /\ result = NoResult
    /\ compared = FALSE
    /\ prev = "none"

\* Master::send_wakeup
SendWakeup ==
    /\ pc = "idle"
    /\ \E r \in DriverResults :
        /\ tx' = [op |-> "send_wakeup"]
        /\ calls' = <<[op |-> "send_wakeup", ret |-> r]>>
        /\ result' = r
    /\ prev' = result.tag
    /\ UNCHANGED <<pc, frame, compared>>

\* Master::write_frame up to and including self.send_header(frame.get_pid())?
WriteFrameSendHeader ==
    /\ pc = "idle"
    /\ \E f \in TxFrames, r \in DriverResults :
        /\ tx' = [op |-> "write_frame", frame |-> f]
        /\ calls' = <<[op |-> "send_header", pid |-> get_pid(f), ret |-> r]>>
        /\ IF Propagates(r)
           THEN /\ pc' = "idle"
                /\ result' = r
                /\ frame' = NoFrame
           ELSE /\ pc' = "write_frame_write"
                /\ result' = NoResult
                /\ frame' = f
    /\ prev' = result.tag
    /\ UNCHANGED compared

\* Master::write_frame: self.write(frame.get_data_with_checksum())
WriteFrameWrite ==
    /\ pc = "write_frame_write"
    /\ \E r \in DriverResults :
        /\ calls' = Append(calls, [op |-> "write", data |-> get_data_with_checksum(frame),
                                   ret |-> r])
        /\ result' = r
    /\ pc' = "idle"
    /\ frame' = NoFrame
    /\ UNCHANGED <<tx, compared, prev>>

\* Master::read_frame: the assertion, self.send_header(pid)? and the fresh Frame
ReadFrameSendHeader ==
    /\ pc = "idle"
    /\ \E pid \in TxPids, n \in ReadLens, r \in DriverResults :
        /\ tx' = [op |-> "read_frame", pid |-> pid, data_length |-> n]
        /\ IF ~(n <= 8)
           THEN /\ calls' = <<>>
                /\ result' = Panicked("Maximum data length is 8 bytes")
                /\ pc' = "idle"
                /\ frame' = NoFrame
           ELSE /\ calls' = <<[op |-> "send_header", pid |-> pid, ret |-> r]>>
                /\ IF Propagates(r)
                   THEN /\ pc' = "idle"
                        /\ result' = r
                        /\ frame' = NoFrame
                   ELSE /\ pc' = "read_frame_read"
                        /\ result' = NoResult
                        /\ frame' = new_frame(pid, n)
    /\ compared' = FALSE
    /\ prev' = result.tag

\* Master::read_frame: self.read(&mut frame.buffer[0..=data_length])? and the comparison
ReadFrameRead ==
    /\ pc = "read_frame_read"
    /\ LET len == read_slice_len(frame.data_length)
       IN  \/ \E e \in DriverErrors :
                /\ calls' = Append(calls, [op |-> "read", len |-> len, bytes |-> <<>>,
                                           ret |-> Err(e)])
                /\ IF Propagates(Err(e))
                   THEN result' = Err(e) /\ compared' = FALSE
                   ELSE result' = verify(frame) /\ compared' = TRUE
           \/ \E bytes \in DriverReads(frame.pid, len) :
                /\ calls' = Append(calls, [op |-> "read", len |-> len, bytes |-> bytes,
                                           ret |-> Ok(Unit)])
                /\ result' = verify([frame EXCEPT !.buffer = CopyInto(@, bytes)])
                /\ compared' = TRUE
    /\ pc' = "idle"
    /\ frame' = NoFrame
    /\ UNCHANGED <<tx, prev>>

Next ==
    \/ SendWakeup
    \/ WriteFrameSendHeader
    \/ WriteFrameWrite
    \/ ReadFrameSendHeader
    \/ ReadFrameRead

Spec == Init /\ [][Next]_vars

(***************************************************************************)
(* Properties of the master transaction logic (checked under Spec)         *)
(***************************************************************************)
\* the checksum rule as the specification words it, from the identifier
RuleChecksum(pid, payload) ==
    IF get_id(pid) >= 60 THEN classic_checksum(payload) ELSE checksum(pid, payload)

\* a finished read_frame within contract whose two driver calls both succeeded
ReadDelivered ==
    /\ pc = "idle"
    /\ tx.op = "read_frame"
    /\ tx.data_length <= 8
    /\ Len(calls) = 2
    /\ calls[1].ret.tag = "ok"
    /\ calls[2].ret.tag = "ok"
    /\ Len(calls[2].bytes) = tx.data_length + 1

ReadPayload == SubSeq(calls[2].bytes, 1, tx.data_length)
ReadTrailing == calls[2].bytes[tx.data_length + 1]

\* C1: a read transaction whose driver calls succeed and whose trailing byte
\* differs from the checksum recomputed over the payload read returns the
\* Checksum error and no Frame, whatever ran before.
C1_MismatchIsChecksumError ==
    (ReadDelivered /\ ReadTrailing # RuleChecksum(tx.pid, ReadPayload))
        => result = Err(DriverErrorFrom("Checksum"))

C1_Witness ==
    /\ ReadDelivered
    /\ ReadTrailing # RuleChecksum(tx.pid, ReadPayload)
    /\ result = Err(DriverErrorFrom("Checksum"))
    /\ tx.data_length = 8
    /\ prev = "ok"

\* C2: a read transaction whose driver calls succeed and whose trailing byte
\* equals the recomputed checksum returns a Frame equal in pid, data_length and
\* all 9 buffer bytes to Frame::from_data(pid, payload read), whatever ran before.
C2_MatchIsFromDataFrame ==
    (ReadDelivered /\ ReadTrailing = RuleChecksum(tx.pid, ReadPayload))
        => /\ result.tag = "ok"
           /\ result.val = from_data(tx.pid, ReadPayload).val
           /\ result.val.pid = tx.pid
           /\ result.val.data_length = tx.data_length
           /\ \A i \in 1..9 :
                result.val.buffer[i] =
                    IF i <= tx.data_length THEN ReadPayload[i]
                    ELSE IF i = tx.data_length + 1 THEN ReadTrailing
                    ELSE 0

C2_Witness ==
    /\ ReadDelivered
    /\ ReadTrailing = RuleChecksum(tx.pid, ReadPayload)
    /\ result.tag = "ok"
    /\ tx.data_length = 1
    /\ prev = "err"

\* number of driver calls of one kind in the log
CountOp(op) == Cardinality({i \in 1..Len(calls) : calls[i].op = op})

\* C3: write_frame issues send_header(frame.pid) once and then, when that
\* succeeded, write once with the payload followed by exactly one checksum byte;
\* write never precedes send_header; no send_wakeup and no read are issued; a
\* write transaction whose calls succeed consists of exactly these two calls.
C3_WriteCallOrder ==
    tx.op = "write_frame" =>
        LET f == tx.frame
            payload == get_data(f)
            bytes == payload \o <<RuleChecksum(f.pid, payload)>>
        IN  /\ \A i \in 1..Len(calls) : calls[i].op \in {"send_header", "write"}
            /\ \A i \in 1..Len(calls) :
                 calls[i].op = "write" =>
                    /\ i = 2
                    /\ calls[1].op = "send_header"
                    /\ calls[1].ret.tag = "ok"
                    /\ calls[i].data = bytes
                    /\ Len(calls[i].data) = Len(payload) + 1
            /\ \A i \in 1..Len(calls) :
                 calls[i].op = "send_header" => i = 1 /\ calls[i].pid = f.pid
            /\ (pc = "idle" /\ result.tag = "ok") =>
                 /\ Len(calls) = 2
                 /\ calls[1].op = "send_header"
                 /\ calls[2].op = "write"

C3_Witness ==
    /\ tx.op = "write_frame"
    /\ pc = "idle"
    /\ result.tag = "ok"
    /\ Len(calls) = 2
    /\ calls[2].op = "write"
    /\ Len(calls[2].data) = 9

\* C4: read_frame within contract issues send_header(pid) exactly once and,
\* when it succeeds, read exactly once with a buffer of data_length + 1 bytes;
\* read never precedes send_header; no write and no send_wakeup are issued.
C4_ReadCallOrder ==
    (tx.op = "read_frame" /\ tx.data_length <= 8) =>
        /\ Len(calls) \in {1, 2}
        /\ calls[1].op = "send_header"
        /\ calls[1].pid = tx.pid
        /\ \A i \in 1..Len(calls) : calls[i].op \in {"send_header", "read"}
        /\ CountOp("send_header") = 1
        /\ \A i \in 1..Len(calls) :
             calls[i].op = "read" =>
                /\ i = 2
                /\ calls[1].ret.tag = "ok"
                /\ calls[i].len = tx.data_length + 1
        /\ (pc = "idle" /\ calls[1].ret.tag = "ok") =>
             (Len(calls) = 2 /\ calls[2].op = "read")

C4_Witness ==
    /\ tx.op = "read_frame"
    /\ pc = "idle"
    /\ Len(calls) = 2
    /\ calls[2].op = "read"
    /\ calls[2].len = 3

\* C5: when a driver call inside write_frame or read_frame fails, the
\* transaction returns exactly the error the driver reported, issues no further
\* driver call, repeats no call, and read_frame returns no Frame and makes no
\* checksum comparison.
C5_DriverErrorPassthrough ==
    (tx.op \in {"write_frame", "read_frame"}) =>
        \A i \in 1..Len(calls) :
            calls[i].ret.tag = "err" =>
                /\ i = Len(calls)
                /\ pc = "idle"
                /\ result = calls[i].ret
                /\ \A j \in 1..Len(calls) : \A k \in 1..Len(calls) :
                     calls[j].op = calls[k].op => j = k
                /\ tx.op = "read_frame" => (result.tag # "ok" /\ ~compared)

C5_Witness ==
    /\ tx.op = "read_frame"
    /\ Len(calls) = 2
    /\ calls[2].ret = Err(DriverErrorFrom("Timeout"))
    /\ result = Err(DriverErrorFrom("Timeout"))
    /\ ~compared

(***************************************************************************)
(* Pure operations: the input is drawn by the initial state, one action    *)
(* applies the operation to it.                                            *)
(***************************************************************************)
\* the initial state of a call of a pure operation with the arguments in t
Ready(t) ==
    /\ pc = "ready"
    /\ tx = t
    /\ frame = NoFrame
    /\ calls = <<>>
    /\ result = NoResult
    /\ compared = FALSE
    /\ prev = "none"

\* the operation named op returns r
Return(op, r) ==
    /\ pc = "ready"
    /\ tx.op = op
    /\ result' = r
    /\ pc' = "done"
    /\ UNCHANGED <<tx, frame, calls, compared, prev>>

Returned(op) == pc = "done" /\ tx.op = op

(*************************** PID::from_id **********************************)
InitPID == \E id \in Byte : Ready([op |-> "from_id", id |-> id])

FromId == Return("from_id", from_id(tx.id))

NextPID == FromId

SpecPID == InitPID /\ [][NextPID]_vars

\* the parity bits as the LIN specification defines them
P0(id) == (Bit(id, 0) + Bit(id, 1) + Bit(id, 2) + Bit(id, 4)) % 2
P1(id) == 1 - ((Bit(id, 1) + Bit(id, 3) + Bit(id, 4) + Bit(id, 5)) % 2)

PidTestVectors == {<<0, 128>>, <<1, 193>>, <<2, 66>>, <<25, 153>>, <<27, 91>>, <<29, 221>>}

\* C7: for every id in 0..=63, PID::from_id(id) is id | (P0 << 6) | (P1 << 7)
\* with P0 = XOR of id bits 0,1,2,4 and P1 = NOT(XOR of id bits 1,3,4,5);
\* get_id of it returns id; uses_classic_checksum of it is true exactly when
\* id >= 60; 0 -> 0x80, 1 -> 0xC1, 2 -> 0x42, 25 -> 0x99, 27 -> 0x5B, 29 -> 0xDD.
C7_PidFromId ==
    (Returned("from_id") /\ tx.id <= 63) =>
        /\ result = Ok(PID(tx.id + 64 * P0(tx.id) + 128 * P1(tx.id)))
        /\ get_id(result.val) = tx.id
        /\ uses_classic_checksum(result.val) <=> (tx.id >= 60)
        /\ \A v \in PidTestVectors : tx.id = v[1] => get(result.val) = v[2]

C7_Witness ==
    /\ Returned("from_id")
    /\ tx.id = 27
    /\ result = Ok(PID(91))

(*************************** checksum **************************************)
InitChecksum ==
    \/ \E b \in PidBytes, d \in Payloads :
         Ready([op |-> "checksum", pid |-> PID(b), data |-> d])
    \/ \E d \in Payloads :
         Ready([op |-> "classic_checksum", data |-> d])

Checksum == Return("checksum", Ok(checksum(tx.pid, tx.data)))

ClassicChecksum == Return("classic_checksum", Ok(classic_checksum(tx.data)))

NextChecksum == Checksum \/ ClassicChecksum

SpecChecksum == InitChecksum /\ [][NextChecksum]_vars

\* the accumulator after the first i payload bytes, as the claim words it
RECURSIVE AccAfter(_, _, _)
AccAfter(seed, data, i) ==
    IF i = 0 THEN seed
    ELSE LET s == AccAfter(seed, data, i - 1) + data[i]
         IN  IF s >= 256 THEN s - 255 ELSE s

\* bitwise complement of the low byte of x
NotLowByte(x) ==
    SumBits([k \in 0..7 |-> 1 - Bit(x, k)], 7)

ChecksumTestVectors ==
    { <<221, <<1>>, 33>>, <<74, <<85, 147, 229>>, 230>>, <<191, <<64, 255>>, 0>> }
ClassicTestVectors ==
    { <<<<1>>, 254>>, <<<<1, 2, 3, 4, 5, 6, 7, 8>>, 219>> }

\* C8: checksum(pid, payload) is the complement of the low byte of the
\* accumulator that starts at the PID byte, adds each payload byte in order and
\* subtracts 255 whenever the running sum is >= 256; classic_checksum is the
\* same with seed 0; checksum(0xDD,[1]) = 0x21, checksum(0x4A,[0x55,0x93,0xE5])
\* = 0xE6, checksum(0xBF,[0x40,0xFF]) = 0, classic_checksum([1]) = 0xFE,
\* classic_checksum([1..8]) = 0xDB.
C8_ChecksumAlgorithm ==
    /\ (Returned("checksum") /\ Len(tx.data) <= 8) =>
         /\ result = Ok(NotLowByte(AccAfter(tx.pid.byte, tx.data, Len(tx.data))))
         /\ \A v \in ChecksumTestVectors :
              (tx.pid.byte = v[1] /\ tx.data = v[2]) => result.val = v[3]
    /\ (Returned("classic_checksum") /\ Len(tx.data) <= 8) =>
         /\ result = Ok(NotLowByte(AccAfter(0, tx.data, Len(tx.data))))
         /\ \A v \in ClassicTestVectors : tx.data = v[1] => result.val = v[2]

C8_Witness ==
    /\ Returned("checksum")
    /\ tx.pid = PID(74)
    /\ tx.data = <<85, 147, 229>>
    /\ result = Ok(230)

(*************************** Frame::from_data ******************************)
InitFrame ==
    \E b \in PidBytes, d \in Payloads :
        Ready([op |-> "from_data", pid |-> PID(b), data |-> d])

FromData == Return("from_data", from_data(tx.pid, tx.data))

NextFrame == FromData

SpecFrame == InitFrame /\ [][NextFrame]_vars

\* C6: for every PID and payload of 0 to 8 bytes, Frame::from_data(pid, payload)
\* has data() = payload, pid() = pid, data_with_checksum() of length
\* payload length + 1 and checksum() equal to classic_checksum(payload) when the
\* identifier is >= 60 and to checksum(pid, payload) otherwise.
C6_FromDataConsistent ==
    (Returned("from_data") /\ Len(tx.data) <= 8) =>
        /\ result.tag = "ok"
        /\ get_data(result.val) = tx.data
        /\ get_pid(result.val) = tx.pid
        /\ Len(get_data_with_checksum(result.val)) = Len(tx.data) + 1
        /\ get_checksum(result.val) = RuleChecksum(tx.pid, tx.data)
        /\ get_data_with_checksum(result.val) =
              tx.data \o <<RuleChecksum(tx.pid, tx.data)>>

C6_Witness ==
    /\ Returned("from_data")
    /\ get_id(tx.pid) >= 60
    /\ Len(tx.data) = 8
    /\ result.tag = "ok"
    /\ get_checksum(result.val) = classic_checksum(tx.data)
    /\ get_checksum(result.val) # checksum(tx.pid, tx.data)

(*************************** Frame::decode *********************************)
DecodePayloads ==
    {<<254, 251, 239, 255>>, <<3, 12, 240, 182>>, <<2, 8, 0, 183>>, <<85, 221>>}
        \cup {Ramp(b, 51, n) : b \in {ByteSample[1], ByteSample[2]}, n \in {0, 1, 7, 8}}
DecodePidBytes == {0, 221}
\* bit offsets and lengths around byte, payload and output-type boundaries
DecodeOffsets == {0, 1, 7, 8, 10, 15, 16, 20, 24, 32, 48, 56, 63, 64}
DecodeLengths == {1, 7, 8, 9, 10, 11, 16, 17, 32, 33, 40, 56, 64, 65}
\* u8, u16, u32, u64
OutputWidths == {8, 16, 32, 64}

InitDecode ==
    \E op \in {"master::decode", "frame::decode"}, b \in DecodePidBytes,
       d \in DecodePayloads, o \in DecodeOffsets, l \in DecodeLengths, w \in OutputWidths :
        Ready([op |-> op, frame |-> from_data(PID(b), d).val, payload |-> d,
               offset |-> o, length |-> l, w |-> w])

\* Frame::decode as master.rs defines it
MasterDecode ==
    Return("master::decode", master_decode(tx.frame, tx.offset, tx.length, tx.w))

\* Frame::decode as frame.rs defines it
FrameDecode ==
    Return("frame::decode", frame_decode(tx.frame, tx.offset, tx.length, tx.w))

NextDecode == MasterDecode \/ FrameDecode

SpecDecode == InitDecode /\ [][NextDecode]_vars

Decoded == Returned("master::decode") \/ Returned("frame::decode")

\* the value of a bit vector of the given width (bits above 2^30 not counted)
RECURSIVE ToNat(_, _)
ToNat(v, width) ==
    IF width = 0 THEN 0
    ELSE (IF v[width - 1] = 1 /\ width <= 31 THEN 2^(width - 1) ELSE 0)
            + ToNat(v, width - 1)

\* C9: for a frame with an n-byte payload and an output type of w bits, decode
\* with bit_length >= 1 fails exactly when bit_offset + bit_length > n * 8 or
\* bit_length > w; a field ending exactly at the last payload bit is accepted,
\* and decode::<u16>(0, 16) on payload [0x55, 0xDD] returns 0xDD55.
C9_DecodeFailsExactlyOutOfRange ==
    (Decoded /\ tx.length >= 1) =>
        /\ (result.tag = "panic") <=>
              (tx.offset + tx.length > Len(tx.payload) * 8 \/ tx.length > tx.w)
        /\ (tx.payload = <<85, 221>> /\ tx.offset = 0 /\ tx.length = 16 /\ tx.w = 16) =>
              (result.tag = "ok" /\ ToNat(result.val, 16) = 56661)

\* bit k of the payload read as a little-endian word
PayloadBit(payload, k) == Bit(payload[(k \div 8) + 1], k % 8)

\* the payload read as a little-endian word (payloads of at most 3 bytes)
RECURSIVE Word(_)
Word(payload) ==
    IF payload = <<>> THEN 0 ELSE Head(payload) + 256 * Word(Tail(payload))

\* C10: for every frame and accepted (bit_offset, bit_length >= 1), decode
\* returns floor(W / 2^bit_offset) mod 2^bit_length, W the payload read as a
\* little-endian word; the result depends on payload bytes only, not on the
\* checksum byte or the buffer past the payload; payload [254,251,239,255]
\* gives decode(0,10) = 1022, decode(10,10) = 1022, decode(20,11) = 2046.
C10_DecodeLittleEndianField ==
    (Decoded /\ tx.length >= 1 /\ result.tag = "ok") =>
        /\ \A j \in 0..(tx.w - 1) :
             result.val[j] =
                IF j < tx.length THEN PayloadBit(tx.payload, tx.offset + j) ELSE 0
        /\ Len(tx.payload) <= 3 =>
             ToNat(result.val, tx.w) = (Word(tx.payload) \div (2^tx.offset)) % (2^tx.length)
        /\ tx.payload = <<254, 251, 239, 255>> =>
             /\ (tx.offset = 0 /\ tx.length = 10) => ToNat(result.val, tx.w) = 1022
             /\ (tx.offset = 10 /\ tx.length = 10) => ToNat(result.val, tx.w) = 1022
             /\ (tx.offset = 20 /\ tx.length = 11) => ToNat(result.val, tx.w) = 2046

C10_Witness ==
    /\ Returned("master::decode")
    /\ tx.payload = <<254, 251, 239, 255>>
    /\ tx.frame.pid = PID(0)
    /\ tx.offset = 20
    /\ tx.length = 11
    /\ tx.w = 16
    /\ result.tag = "ok"
    /\ ToNat(result.val, 16) = 2046

(***************************************************************************)
(* Transport layer (frame.rs, mod transport)                               *)
(***************************************************************************)
NAD(b) == [nad |-> b]
SID(b) == [sid |-> b]
PCI(b) == [pci |-> b]

\* the PCI built without the length check
new_sf_unchecked(length) == Ok(PCI(length + 1))

\* PCI::new_sf, length a u8
new_sf(length) ==
    IF length <= 5
    THEN Ok(PCI(length + 1))
    ELSE Panicked("Maximum length for single frame is 5")

\* unused bytes left at zero
UnusedFilledZero == [i \in 1..8 |-> 0]

\* [0xFFu8; 8]
UnusedFilled == [i \in 1..8 |-> 255]

\* frame_data[3..data.len() + 3].clone_from_slice(data)
CopyAt3(frame_data, data) ==
    [i \in 1..8 |-> IF i >= 4 /\ i <= Len(data) + 3 THEN data[i - 3] ELSE frame_data[i]]

create_single_frame(pid, nad, sid, data) ==
    IF ~(data # <<>> /\ Len(data) <= 5)
    THEN Panicked("A single frame must contain between 0 and 5 bytes")
    ELSE LET pci == new_sf(Len(data) % 256)
         IN  IF pci.tag = "panic" THEN pci
             ELSE LET d0 == [UnusedFilled EXCEPT ![1] = nad.nad]
                      d1 == [d0 EXCEPT ![2] = pci.val.pci]
                      d2 == [d1 EXCEPT ![3] = sid.sid]
                      d3 == CopyAt3(d2, data)
                  IN  from_data(pid, d3)

\* MASTER_REQUEST_FRAME_ID, SLAVE_RESPONSE_FRAME_ID and their PIDs
MASTER_REQUEST_FRAME_ID == 60
SLAVE_RESPONSE_FRAME_ID == 61
MASTER_REQUEST_FRAME_PID == from_id_const(MASTER_REQUEST_FRAME_ID)
SLAVE_RESPONSE_FRAME_PID == from_id_const(SLAVE_RESPONSE_FRAME_ID)

(*************************** create_single_frame ***************************)
TransportPids == {MASTER_REQUEST_FRAME_PID, SLAVE_RESPONSE_FRAME_PID, from_id_const(1)}
TransportNads == {NAD(16), NAD(2)}
TransportSids == {SID(178), SID(3)}
\* data of 0 to 6 bytes, and the data the tests pass
TransportData ==
    {p \in Payloads : Len(p) <= 6} \cup {<<1, 179, 0, 1, 16>>, <<1, 2, 3, 4, 5, 6>>}

InitTransport ==
    \E pid \in TransportPids, nad \in TransportNads, sid \in TransportSids,
       d \in TransportData :
        Ready([op |-> "create_single_frame", pid |-> pid, nad |-> nad, sid |-> sid,
               data |-> d])

CreateSingleFrame ==
    Return("create_single_frame", create_single_frame(tx.pid, tx.nad, tx.sid, tx.data))

NextTransport == CreateSingleFrame

SpecTransport == InitTransport /\ [][NextTransport]_vars

\* the 8 payload bytes the claim describes
SingleFramePayload(nad, sid, data) ==
    [i \in 1..8 |->
        IF i = 1 THEN nad.nad
        ELSE IF i = 2 THEN Len(data) + 1
        ELSE IF i = 3 THEN sid.sid
        ELSE IF i - 3 <= Len(data) THEN data[i - 3]
        ELSE 255]

\* C11: for data of length L, 1 <= L <= 5, create_single_frame(pid, nad, sid,
\* data) returns a frame with that PID and a payload of exactly 8 bytes: NAD,
\* L + 1, SID, the data, and 0xFF in every remaining byte; its checksum is the
\* one Frame::from_data computes for that PID over those 8 bytes.
C11_SingleFrameLayout ==
    (Returned("create_single_frame") /\ Len(tx.data) >= 1 /\ Len(tx.data) <= 5) =>
        /\ result.tag = "ok"
        /\ get_pid(result.val) = tx.pid
        /\ result.val.data_length = 8
        /\ get_data(result.val) = SingleFramePayload(tx.nad, tx.sid, tx.data)
        /\ get_checksum(result.val) =
              RuleChecksum(tx.pid, SingleFramePayload(tx.nad, tx.sid, tx.data))
        /\ result = from_data(tx.pid, SingleFramePayload(tx.nad, tx.sid, tx.data))

C11_Witness ==
    /\ Returned("create_single_frame")
    /\ tx.pid = SLAVE_RESPONSE_FRAME_PID
    /\ tx.nad = NAD(16)
    /\ tx.sid = SID(178)
    /\ tx.data = <<1>>
    /\ result.tag = "ok"
    /\ get_data(result.val) = <<16, 2, 178, 1, 255, 255, 255, 255>>

(***************************************************************************)
(* Diagnostic response values (frame.rs, mod diagnostic)                   *)
(***************************************************************************)
\* LittleEndian::read_u16 of the first 2 bytes
read_u16(bytes) == bytes[1] + 256 * bytes[2]

\* LittleEndian::read_u32 of the first 4 bytes, as a vector of 32 bits
read_u32(bytes) == [k \in 0..31 |-> Bit(bytes[(k \div 8) + 1], k % 8)]

\* impl From<&[u8]> for ProductId
product_id_from(data) ==
    IF ~(Len(data) >= 5)
    THEN Panicked("We require at least 4 data bytes")
    ELSE Ok([supplier_id |-> read_u16(SubSeq(data, 1, 2)),
             function_id |-> read_u16(SubSeq(data, 3, 4)),
             variant |-> data[5]])

\* impl From<&[u8]> for SerialNumber
serial_number_from(data) ==
    IF ~(Len(data) >= 4)
    THEN Panicked("We require at least 4 data bytes")
    ELSE Ok([serial |-> read_u32(data)])

(*************************** contract violations ***************************)
\* response payloads: every length from 0 to 9, and the ones the tests decode
ResponseData == Payloads \cup {<<179, 0, 1, 16, 1>>, <<201, 56, 86, 11>>}

InitNewSf == \E l \in Byte : Ready([op |-> "new_sf", length |-> l])

InitProductId == \E d \in ResponseData : Ready([op |-> "ProductId::from", data |-> d])

InitSerialNumber == \E d \in ResponseData : Ready([op |-> "SerialNumber::from", data |-> d])

NewSf == Return("new_sf", new_sf(tx.length))

ProductIdFrom == Return("ProductId::from", product_id_from(tx.data))

SerialNumberFrom == Return("SerialNumber::from", serial_number_from(tx.data))

\* every operation with a precondition; of the bus transactions, read_frame
InitContract ==
    \/ Init
    \/ InitPID
    \/ InitFrame
    \/ InitTransport
    \/ InitNewSf
    \/ InitProductId
    \/ InitSerialNumber

NextContract ==
    \/ ReadFrameSendHeader
    \/ ReadFrameRead
    \/ FromId
    \/ FromData
    \/ CreateSingleFrame
    \/ NewSf
    \/ ProductIdFrom
    \/ SerialNumberFrom

SpecContract == InitContract /\ [][NextContract]_vars

\* C12: an argument that violates the precondition makes the operation fail
\* without a result: PID::from_id(id >= 64), Frame::from_data with more than 8
\* bytes, create_single_frame with empty data or more than 5 bytes,
\* PCI::new_sf(length > 5), ProductId from fewer than 5 bytes, SerialNumber from
\* fewer than 4 bytes, and read_frame with data_length > 8, which fails before
\* any driver call.
C12_ContractViolationsFail ==
    /\ (Returned("from_id") /\ tx.id >= 64) => result.tag = "panic"
    /\ (Returned("from_data") /\ Len(tx.data) > 8) => result.tag = "panic"
    /\ (Returned("create_single_frame") /\ (tx.data = <<>> \/ Len(tx.data) > 5)) =>
          result.tag = "panic"
    /\ (Returned("new_sf") /\ tx.length > 5) => result.tag = "panic"
    /\ (Returned("ProductId::from") /\ Len(tx.data) < 5) => result.tag = "panic"
    /\ (Returned("SerialNumber::from") /\ Len(tx.data) < 4) => result.tag = "panic"
    /\ (tx.op = "read_frame" /\ tx.data_length > 8) =>
          /\ result.tag = "panic"
          /\ calls = <<>>
          /\ pc = "idle"
          /\ frame = NoFrame

C12_Witness ==
    /\ tx.op = "read_frame"
    /\ tx.data_length = 9
    /\ result.tag = "panic"
    /\ calls = <<>>
    /\ prev = "ok"

(***************************************************************************)
(* diagnostic::Identifier and its conversions                              *)
(***************************************************************************)
LINProductIdentification == [kind |-> "LINProductIdentification"]
SerialNumber == [kind |-> "SerialNumber"]
UserDefined(b) == [kind |-> "UserDefined", b |-> b]
Reserved(b) == [kind |-> "Reserved", b |-> b]

\* every value of the enum
Identifiers ==
    {LINProductIdentification, SerialNumber}
        \cup {UserDefined(b) : b \in Byte} \cup {Reserved(b) : b \in Byte}

\* the user-defined range ending one short
identifier_from_u8_short(byte) ==
    IF byte = 0 THEN LINProductIdentification
    ELSE IF byte = 1 THEN SerialNumber
    ELSE IF byte >= 32 /\ byte < 63 THEN UserDefined(byte)
    ELSE Reserved(byte)

\* impl From<u8> for Identifier
identifier_from_u8(byte) ==
    IF byte = 0 THEN LINProductIdentification
    ELSE IF byte = 1 THEN SerialNumber
    ELSE IF byte >= 32 /\ byte <= 63 THEN UserDefined(byte)
    ELSE Reserved(byte)

\* impl From<Identifier> for u8
u8_from_identifier(identifier) ==
    IF identifier.kind = "LINProductIdentification" THEN 0
    ELSE IF identifier.kind = "SerialNumber" THEN 1
    ELSE identifier.b

(*************************** Identifier round trips ************************)
\* a round trip starts from a byte or from an Identifier; the first conversion
\* leaves its value in result, the second is applied to that value
InitIdentifier ==
    \/ \E b \in Byte : Ready([op |-> "u8_round_trip", byte |-> b])
    \/ \E i \in Identifiers : Ready([op |-> "identifier_round_trip", identifier |-> i])

\* Identifier::from(byte)
IdentifierFromU8 ==
    /\ \/ /\ pc = "ready"
          /\ tx.op = "u8_round_trip"
          /\ result' = Ok(identifier_from_u8(tx.byte))
          /\ pc' = "converted"
       \/ /\ pc = "converted"
          /\ tx.op = "identifier_round_trip"
          /\ result' = Ok(identifier_from_u8(result.val))
          /\ pc' = "done"
    /\ UNCHANGED <<tx, frame, calls, compared, prev>>

\* u8::from(identifier)
U8FromIdentifier ==
    /\ \/ /\ pc = "ready"
          /\ tx.op = "identifier_round_trip"
          /\ result' = Ok(u8_from_identifier(tx.identifier))
          /\ pc' = "converted"
       \/ /\ pc = "converted"
          /\ tx.op = "u8_round_trip"
          /\ result' = Ok(u8_from_identifier(result.val))
          /\ pc' = "done"
    /\ UNCHANGED <<tx, frame, calls, compared, prev>>

NextIdentifier == IdentifierFromU8 \/ U8FromIdentifier

SpecIdentifier == InitIdentifier /\ [][NextIdentifier]_vars

\* the classification of a byte as the claim lists it
Classified(b) ==
    CASE b = 0 -> LINProductIdentification
      [] b = 1 -> SerialNumber
      [] b \in 32..63 -> UserDefined(b)
      [] OTHER -> Reserved(b)

\* byte -> Identifier -> byte returns the byte
ByteRoundTrip ==
    /\ (pc = "converted" /\ tx.op = "u8_round_trip") => result.val = Classified(tx.byte)
    /\ (pc = "done" /\ tx.op = "u8_round_trip") => result.val = tx.byte

\* an Identifier whose variant agrees with the range its byte lies in
InDocumentedRange(i) ==
    \/ i.kind \in {"LINProductIdentification", "SerialNumber"}
    \/ i.kind = "UserDefined" /\ i.b \in 32..63
    \/ i.kind = "Reserved" /\ i.b \in (2..31) \cup (64..255)

\* C13 as stated: the mapping is lossless in both directions: every byte
\* survives byte -> Identifier -> byte, and every Identifier value the type can
\* hold (UserDefined(b), Reserved(b) with any byte b) survives
\* Identifier -> byte -> Identifier.
C13_LosslessForEveryValue ==
    /\ ByteRoundTrip
    /\ (pc = "done" /\ tx.op = "identifier_round_trip") => result.val = tx.identifier

\* C13 amended: every byte survives byte -> Identifier -> byte; an Identifier
\* survives Identifier -> byte -> Identifier when its variant is the one its
\* byte is classified as (UserDefined(32..=63), Reserved(2..=31 or 64..=255),
\* LINProductIdentification, SerialNumber); any other value comes back as the
\* classification of its byte.
C13_LosslessOnDocumentedRanges ==
    /\ ByteRoundTrip
    /\ (pc = "done" /\ tx.op = "identifier_round_trip") =>
          /\ InDocumentedRange(tx.identifier) => result.val = tx.identifier
          /\ result.val = Classified(u8_from_identifier(tx.identifier))

C13_Witness ==
    /\ pc = "done"
    /\ tx.op = "identifier_round_trip"
    /\ tx.identifier = UserDefined(63)
    /\ result.val = UserDefined(63)

(***************************************************************************)
(* Read by identifier requests (frame.rs, mod diagnostic; ldf.rs)          *)
(***************************************************************************)
READ_BY_IDENTIFIER_SID == SID(178)

ProductId(supplier_id, function_id, variant) ==
    [supplier_id |-> supplier_id, function_id |-> function_id, variant |-> variant]

\* NodeAttributes::with_default_timing (times in milliseconds)
with_default_timing(configured_nad, initial_nad, product_id) ==
    [configured_nad |-> configured_nad,
     initial_nad |-> initial_nad,
     product_id |-> product_id,
     p2_min |-> 50,
     st_min |-> 0,
     n_as_timeout |-> 1000,
     n_cr_timeout |-> 1000]

create_read_by_identifier_frame(nad, identifier, supplier_id, function_id) ==
    create_single_frame(
        MASTER_REQUEST_FRAME_PID, nad, READ_BY_IDENTIFIER_SID,
        << u8_from_identifier(identifier),
           (supplier_id % 256) % 256,
           (supplier_id \div 256) % 256,
           (function_id % 256) % 256,
           (function_id \div 256) % 256 >>)

\* the request addressed to the configured NAD
from_node_attributes_configured(node_attributes, identifier) ==
    create_read_by_identifier_frame(
        node_attributes.configured_nad, identifier,
        node_attributes.product_id.supplier_id,
        node_attributes.product_id.function_id)

create_read_by_identifier_frame_from_node_attributes(node_attributes, identifier) ==
    create_read_by_identifier_frame(
        node_attributes.initial_nad, identifier,
        node_attributes.product_id.supplier_id,
        node_attributes.product_id.function_id)

(*************************** request builders ******************************)
DiagNads == {NAD(16), NAD(127), NAD(1)}
DiagConfiguredNads == {NAD(16), NAD(34)}
DiagSupplierIds == {179, 65535, 32513}
DiagFunctionIds == {4097, 255, 65280}
DiagVariants == {0, 1}
DiagIdentifiers ==
    {LINProductIdentification, SerialNumber, UserDefined(32), Reserved(2), Reserved(255)}
DiagNodeAttributes ==
    {with_default_timing(c, i, ProductId(s, f, v)) :
        c \in DiagConfiguredNads, i \in DiagNads, s \in DiagSupplierIds,
        f \in DiagFunctionIds, v \in DiagVariants}

InitDiagnostic ==
    \/ \E a \in DiagNodeAttributes, i \in DiagIdentifiers :
         Ready([op |-> "create_read_by_identifier_frame_from_node_attributes",
                node_attributes |-> a, identifier |-> i])
    \/ \E n \in DiagNads, i \in DiagIdentifiers, s \in DiagSupplierIds,
          f \in DiagFunctionIds :
         Ready([op |-> "create_read_by_identifier_frame", nad |-> n, identifier |-> i,
                supplier_id |-> s, function_id |-> f])

CreateReadByIdentifierFrameFromNodeAttributes ==
    Return("create_read_by_identifier_frame_from_node_attributes",
           create_read_by_identifier_frame_from_node_attributes(
               tx.node_attributes, tx.identifier))

CreateReadByIdentifierFrame ==
    Return("create_read_by_identifier_frame",
           create_read_by_identifier_frame(
               tx.nad, tx.identifier, tx.supplier_id, tx.function_id))

NextDiagnostic ==
    CreateReadByIdentifierFrameFromNodeAttributes \/ CreateReadByIdentifierFrame

SpecDiagnostic == InitDiagnostic /\ [][NextDiagnostic]_vars

\* the request payload the claim describes
ReadByIdentifierPayload(nad, identifier, supplier_id, function_id) ==
    << nad.nad, 6, 178, u8_from_identifier(identifier),
       supplier_id % 256, supplier_id \div 256,
       function_id % 256, function_id \div 256 >>

\* C14: create_read_by_identifier_frame_from_node_attributes(attrs, identifier)
\* returns the frame of create_read_by_identifier_frame(attrs.initial_nad,
\* identifier, attrs.product_id.supplier_id, attrs.product_id.function_id): the
\* PID of identifier 0x3C and the payload [NAD, 0x06, 0xB2, identifier byte,
\* supplier low, supplier high, function low, function high] with the NAD
\* attrs.initial_nad; attrs.configured_nad has no effect.
C14_FromNodeAttributes ==
    Returned("create_read_by_identifier_frame_from_node_attributes") =>
        LET a == tx.node_attributes
            payload == ReadByIdentifierPayload(a.initial_nad, tx.identifier,
                           a.product_id.supplier_id, a.product_id.function_id)
        IN  /\ result.tag = "ok"
            /\ get_pid(result.val) = from_id(60).val
            /\ get_id(get_pid(result.val)) = 60
            /\ result.val.data_length = 8
            /\ get_data(result.val) = payload
            /\ result = from_data(from_id(60).val, payload)
            /\ result = create_read_by_identifier_frame(
                            a.initial_nad, tx.identifier,
                            a.product_id.supplier_id, a.product_id.function_id)

C14_Witness ==
    /\ Returned("create_read_by_identifier_frame_from_node_attributes")
    /\ tx.node_attributes.initial_nad = NAD(16)
    /\ tx.node_attributes.configured_nad = NAD(34)
    /\ tx.identifier = SerialNumber
    /\ tx.node_attributes.product_id = ProductId(179, 4097, 0)
    /\ result.tag = "ok"
    /\ get_data(result.val) = <<16, 6, 178, 1, 179, 0, 1, 16>>

(*************************** checksum invariant ****************************)
\* the checksum functions, Frame::from_data and the read transaction
InitSum ==
    \/ Init
    \/ InitChecksum
    \/ InitFrame

NextSum ==
    \/ ReadFrameSendHeader
    \/ ReadFrameRead
    \/ Checksum
    \/ ClassicChecksum
    \/ FromData

SpecSum == InitSum /\ [][NextSum]_vars

\* the seed the rule of a PID prescribes
RuleSeed(pid) == IF get_id(pid) >= 60 THEN 0 ELSE pid.byte

\* sum with end-around carry of the seed and the bytes
EndAroundSum(seed, bytes) == AccAfter(seed, bytes, Len(bytes))

\* the accumulator of the fold after each of its steps is a byte
AccumulatorInByte(seed, data) ==
    \A i \in 0..Len(data) : fold(SubSeq(data, 1, i), seed) \in 0..255

\* C15: for every seed (0 for classic, the PID byte for enhanced) and payload of
\* 0 to 8 bytes the accumulator is in 0..=255 after every fold step, and the
\* end-around-carry sum of seed, payload and produced checksum is 0xFF; so
\* every frame of Frame::from_data and every frame a successful read_frame
\* returns sums to 0xFF under the rule of its PID.
C15_ChecksumSumsToFF ==
    /\ (Returned("checksum") /\ Len(tx.data) <= 8) =>
          /\ AccumulatorInByte(tx.pid.byte, tx.data)
          /\ EndAroundSum(tx.pid.byte, tx.data \o <<result.val>>) = 255
    /\ (Returned("classic_checksum") /\ Len(tx.data) <= 8) =>
          /\ AccumulatorInByte(0, tx.data)
          /\ EndAroundSum(0, tx.data \o <<result.val>>) = 255
    /\ (Returned("from_data") /\ Len(tx.data) <= 8) =>
          /\ AccumulatorInByte(RuleSeed(tx.pid), tx.data)
          /\ EndAroundSum(RuleSeed(tx.pid), get_data_with_checksum(result.val)) = 255
    /\ (pc = "idle" /\ tx.op = "read_frame" /\ result.tag = "ok") =>
          /\ Len(get_data_with_checksum(result.val)) = tx.data_length + 1
          /\ EndAroundSum(RuleSeed(tx.pid), get_data_with_checksum(result.val)) = 255

C15_Witness ==
    /\ pc = "idle"
    /\ tx.op = "read_frame"
    /\ tx.data_length = 8
    /\ get_id(tx.pid) < 60
    /\ result.tag = "ok"
    /\ EndAroundSum(tx.pid.byte, get_data_with_checksum(result.val)) = 255
    /\ tx.pid.byte + get_data(result.val)[1] >= 256

====
